---------------------------- MODULE Spec2Model ----------------------------
(***************************************************************************)
(* Model of QuentinI/udptest: the record codec (src/src/record.rs) and the *)
(* generic UDP transport, Sender and Receiver (src/src/udp.rs).            *)
(*                                                                         *)
(* Representation choices                                                  *)
(*  - a byte is an integer in 0..255, a buffer is a sequence of bytes;     *)
(*  - a Rust String is the sequence of its UTF-8 bytes (what Rust stores); *)
(*    String::from_utf8 validates a byte vector and keeps its bytes;       *)
(*  - a u32 is a pair of 16-bit limbs [hi, lo] (value hi * 2^16 + lo), so  *)
(*    that the whole range 0 .. 2^32 - 1 is representable.                 *)
(***************************************************************************)
EXTENDS Integers, Sequences, FiniteSets, TLC

\* udp.rs:9  const UDP_MAX_PAYLOAD: usize = 508
UDP_MAX_PAYLOAD == 508

\* record.rs:39  the 4-byte id prefix a datagram must hold
ID_BYTES == 4

-----------------------------------------------------------------------------
(* Bounds of the model                                                     *)

\* longest enumerated short string, in characters
MaxStrLen == 2
\* how far (in bytes) the long strings reach around the payload capacity
MaxOver == 2
\* longest enumerated raw payload behind a 4-byte header, in bytes
MaxRawLen == 3
\* longest sequence of items handed to Sender::send
MaxItems == 2
\* most datagrams that arrive at the receiver's socket in one run
MaxArrivals == 2
\* most calls of Receiver::next in one run
MaxCalls == 3
\* worker threads the UI may spawn
MaxSpawns == 2
\* reports the listen loops may have sent in total before they only see
\* timeouts
MaxReports == 2
\* Stop messages that may wait unread in one control channel
MaxStops == 2

-----------------------------------------------------------------------------
(* u32 and its little-endian encoding                                      *)

\* record.rs:8  id: u32
U32(hi, lo) == [hi |-> hi, lo |-> lo]

\* a faulty to_le_bytes: most significant byte first
to_be_bytes(id) ==
    << id.hi \div 256, id.hi % 256, id.lo \div 256, id.lo % 256 >>

\* record.rs:56  self.id.to_le_bytes(): least significant byte first
to_le_bytes(id) ==
    << id.lo % 256, id.lo \div 256, id.hi % 256, id.hi \div 256 >>

\* a faulty from_le_bytes: reads the bytes most significant first
from_be_bytes(b) ==
    U32(b[2] + 256 * b[1], b[4] + 256 * b[3])

\* record.rs:45  u32::from_le_bytes(id)
from_le_bytes(b) ==
    U32(b[3] + 256 * b[4], b[1] + 256 * b[2])

-----------------------------------------------------------------------------
(* UTF-8 text.  A String is held as the sequence of its UTF-8 bytes, which  *)
(* is what Rust stores: as_bytes exposes the bytes, String::from_utf8       *)
(* validates a byte vector and keeps it unchanged.                         *)

\* the UTF-8 encoding of one Unicode scalar value (a string literal's char)
Utf8EncodeChar(c) ==
    IF c < 128 THEN << c >>
    ELSE IF c < 2048 THEN << 192 + (c \div 64), 128 + (c % 64) >>
    ELSE IF c < 65536 THEN
        << 224 + (c \div 4096), 128 + ((c \div 64) % 64), 128 + (c % 64) >>
    ELSE
        << 240 + (c \div 262144), 128 + ((c \div 4096) % 64),
           128 + ((c \div 64) % 64), 128 + (c % 64) >>

RECURSIVE Utf8EncodeFrom(_, _)
Utf8EncodeFrom(s, i) ==
    IF i > Len(s) THEN << >>
    ELSE Utf8EncodeChar(s[i]) \o Utf8EncodeFrom(s, i + 1)

\* the String whose characters are the scalar values s (a literal, a TEXT
\* column): its bytes
Str(s) == Utf8EncodeFrom(s, 1)

\* record.rs:57  self.data.as_bytes()
as_bytes(data) == data

IsCont(b) == b >= 128 /\ b <= 191

\* width of the well-formed UTF-8 sequence that starts at bytes[i], or 0 when
\* none starts there (continuation or illegal lead byte, bad or missing
\* continuation byte, overlong form, surrogate, above U+10FFFF)
Utf8SeqWidth(bytes, i) ==
    LET n == Len(bytes)
        b0 == bytes[i]
        b1 == IF i + 1 <= n THEN bytes[i + 1] ELSE 0
        b2 == IF i + 2 <= n THEN bytes[i + 2] ELSE 0
        b3 == IF i + 3 <= n THEN bytes[i + 3] ELSE 0
    IN  IF b0 < 128 THEN 1
        ELSE IF b0 >= 194 /\ b0 <= 223
            THEN IF IsCont(b1) THEN 2 ELSE 0
        ELSE IF b0 >= 224 /\ b0 <= 239
            THEN IF /\ IsCont(b1) /\ IsCont(b2)
                    /\ (b0 = 224 => b1 >= 160)
                    /\ (b0 = 237 => b1 <= 159)
                 THEN 3 ELSE 0
        ELSE IF b0 >= 240 /\ b0 <= 244
            THEN IF /\ IsCont(b1) /\ IsCont(b2) /\ IsCont(b3)
                    /\ (b0 = 240 => b1 >= 144)
                    /\ (b0 = 244 => b1 <= 143)
                 THEN 4 ELSE 0
        ELSE 0

\* bytes[i] is where a left-to-right validation of bytes fails, if nothing
\* before it does: a byte that starts no well-formed sequence and is not a
\* continuation byte of the well-formed sequence started 1..3 bytes earlier
Utf8BadAt(bytes, i) ==
    IF IsCont(bytes[i])
    THEN ~ \E k \in 1..3 : i - k >= 1 /\ Utf8SeqWidth(bytes, i - k) > k
    ELSE Utf8SeqWidth(bytes, i) = 0

\* Utf8Error::valid_up_to(): the length of the longest valid prefix
Utf8ValidUpTo(bytes) ==
    IF \A i \in 1..Len(bytes) : ~ Utf8BadAt(bytes, i)
    THEN Len(bytes)
    ELSE (CHOOSE i \in 1..Len(bytes) :
             /\ Utf8BadAt(bytes, i)
             /\ \A j \in 1..(i - 1) : ~ Utf8BadAt(bytes, j)) - 1

\* a faulty from_utf8: takes the bytes without validating them
from_utf8_unchecked(bytes) ==
    [ok |-> TRUE, string |-> bytes, valid_up_to |-> Len(bytes)]

\* record.rs:49  String::from_utf8(vec): Ok(the string, the same bytes) or
\* Err(FromUtf8Error)
from_utf8(bytes) ==
    LET v == Utf8ValidUpTo(bytes)
    IN  IF v = Len(bytes)
        THEN [ok |-> TRUE, string |-> bytes, valid_up_to |-> v]
        ELSE [ok |-> FALSE, string |-> << >>, valid_up_to |-> v]

-----------------------------------------------------------------------------
(* Record and its codec (record.rs)                                        *)

\* record.rs:7-10  struct Record { id: u32, data: String }
Record(id, data) == [id |-> id, data |-> data]

NoRecord == Record(U32(0, 0), << >>)

\* Result<Record, ParseError>; record.rs:15-20  ParseError::Incomplete(usize),
\* ParseError::Invalid(FromUtf8Error) (n is the count it carries)
ParseOk(r) == [tag |-> "Ok", value |-> r, n |-> 0]
Incomplete(n) == [tag |-> "Incomplete", value |-> NoRecord, n |-> n]
Invalid(n) == [tag |-> "Invalid", value |-> NoRecord, n |-> n]

\* a faulty from_udp: reports the number of bytes missing, not the number got
from_udp_missing(b) ==
    IF Len(b) < ID_BYTES
    THEN Incomplete(ID_BYTES - Len(b))
    ELSE LET s == from_utf8(SubSeq(b, ID_BYTES + 1, Len(b)))
         IN  IF s.ok
             THEN ParseOk(Record(from_le_bytes(SubSeq(b, 1, ID_BYTES)), s.string))
             ELSE Invalid(s.valid_up_to)

\* record.rs:38-51  impl FromUdp for Record
from_udp(b) ==
    IF Len(b) < ID_BYTES
    THEN Incomplete(Len(b))
    ELSE LET id == from_le_bytes(SubSeq(b, 1, ID_BYTES))
             s  == from_utf8(SubSeq(b, ID_BYTES + 1, Len(b)))
         IN  IF s.ok THEN ParseOk(Record(id, s.string))
                     ELSE Invalid(s.valid_up_to)

\* record.rs:55-59  impl ToUdp for Record
to_udp(r) == to_le_bytes(r.id) \o as_bytes(r.data)

-----------------------------------------------------------------------------
(* Inputs                                                                  *)

\* record.rs:114-120  the ids of the test records, and 1 (record.rs:77)
Ids ==
    { U32(0, 0), U32(0, 1), U32(0, 42), U32(0, 256), U32(26, 28518),
      U32(65535, 65535) }

\* one character of each encoded width: 'r', e-acute, a rune (record.rs:117),
\* an emoji
Chars == { 114, 233, 5819, 128512 }

ShortStrings ==
    { Str(s) : s \in UNION { [1..n -> Chars] : n \in 0..MaxStrLen } }

\* the string pre followed by n copies of the character c
Repeat(pre, c, n) ==
    LET e == Utf8EncodeChar(c)
        w == Len(e)
    IN  pre \o SubSeq([i \in 1..(n * w) |-> e[((i - 1) % w) + 1]], 1, n * w)

\* the most data bytes a record can carry in one datagram
DataCap == UDP_MAX_PAYLOAD - ID_BYTES

\* strings whose byte length is within MaxOver of DataCap, of one-byte and of
\* two-byte characters, the latter also shifted by one byte
LongStrings ==
    { Repeat(t[1], t[2], t[3]) :
        t \in { u \in { << >>, << 114 >> } \X { 114, 233 } \X (1..(DataCap + MaxOver)) :
                  LET len == Len(u[1]) + u[3] * Len(Utf8EncodeChar(u[2]))
                  IN  len >= DataCap - MaxOver /\ len <= DataCap + MaxOver } }

Strings == ShortStrings \cup LongStrings

Records == { Record(id, data) : id \in Ids, data \in Strings }

\* bytes of raw (not necessarily well-formed) payloads: '(', 'r', two
\* continuation bytes, the leads of a 2-byte and of a 3-byte sequence, and a
\* byte that occurs in no UTF-8 text
RawBytes == { 40, 114, 128, 160, 195, 237, 255 }

HeaderBytes == { 0, 1, 255 }

\* buffers too short for a header, and a header followed by a raw payload
RawBuffers ==
    UNION { [1..n -> RawBytes] : n \in 0..(ID_BYTES - 1) }
    \cup { h \o p : h \in [1..ID_BYTES -> HeaderBytes],
                    p \in UNION { [1..n -> RawBytes] : n \in 0..MaxRawLen } }

-----------------------------------------------------------------------------
(* State                                                                   *)

VARIABLES
    \* the codec applied to one input
    cstage,     \* "init", "serialized", "raw", "parsed"
    cfrom,      \* where cbuf came from: "none", "record", "raw"
    crec,       \* the record given to to_udp
    cbuf,       \* the buffer given to from_udp
    cres        \* what from_udp returned

VARIABLES
    \* one Sender and one call of Sender::send
    spc,        \* "unbound", "bindfailed", "idle", "connect", "loop", "returned"
    items,      \* the sequence the iterator yields
    idx,        \* how many items the loop has taken from the iterator
    serialized, \* how many times to_udp has been called
    connects,   \* the results of the sock.connect calls, in order
    attempts,   \* the sock.send calls, in order: the slice given and the result
    wire,       \* the datagrams the socket has transmitted, in order
    log,        \* the messages logged with warn!
    sres        \* what send returned

VARIABLES
    \* one Receiver<T>
    rpc,        \* "unbound", "bindfailed", "listening"
    rtype,      \* the type T the receiver parses: "Record" or "DummyData"
    rtimeout,   \* the socket's read timeout in ms, 0 when none is set
    rxq,        \* the datagrams waiting in the socket, oldest first
    arrived,    \* how many datagrams have arrived at the socket
    buf,        \* the receiver's scratch buffer
    results,    \* what the calls of next have returned, in order
    arrivals,   \* every datagram that has arrived at the socket, in order
    recvs       \* what the calls of recv_from did, in order

VARIABLES
    \* the App, its UI thread and the worker threads it has spawned
    mode,       \* App::mode: "Send" or "Listen"
    task,       \* App::task: 0 for None, else the worker whose channels it holds
    status,     \* App::status: "None", "Some(true)", "Some(false)"
    applog,     \* App::log, one entry per line pushed
    ui_pc,      \* where update is: "top", "poll", "panel"; "panicked"
    spawned,    \* how many worker threads have been spawned
    wkind,      \* per worker: "none", "sender", "listener"
    wpc,        \* per worker: where its closure is
    wres,       \* per listener worker: the result of next it is handling
    ctlq,       \* per worker: the Stop messages waiting in its control channel
    ctl_rx,     \* per worker: whether control_receiver is still alive
    statq,      \* per worker: the messages waiting in its status channel
    stat_rx,    \* per worker: whether status_receiver (in the Task) is alive
    sent,       \* per worker: every status message it has sent, in order
    owed,       \* per worker: results of next not yet followed by a poll
    since_stop, \* per worker: calls of next started with a Stop waiting
    logmark     \* per worker: the length of App::log when it was spawned

VARIABLES
    \* the network between a Sender and a Receiver
    delivered   \* for each datagram it has delivered, its position in wire

codecVars == << cstage, cfrom, crec, cbuf, cres >>

recvVars ==
    << rpc, rtype, rtimeout, rxq, arrived, buf, results, arrivals, recvs >>

sendVars ==
    << spc, items, idx, serialized, connects, attempts, wire, log, sres >>

appVars ==
    << mode, task, status, applog, ui_pc, spawned, wkind, wpc, wres, ctlq,
       ctl_rx, statq, stat_rx, sent, owed, since_stop, logmark >>

vars ==
    << cstage, cfrom, crec, cbuf, cres,
       spc, items, idx, serialized, connects, attempts, wire, log, sres,
       rpc, rtype, rtimeout, rxq, arrived, buf, results, arrivals, recvs,
       mode, task, status, applog, ui_pc, spawned, wkind, wpc, wres, ctlq,
       ctl_rx, statq, stat_rx, sent, owed, since_stop, logmark,
       delivered >>

linkVars == << delivered >>

InitLinkVars == delivered = << >>

NoResult == [tag |-> "None", value |-> NoRecord, n |-> 0]

\* std::io::Result<()>: Ok(()) or Err(e), e an error of some kind
IoOk == [tag |-> "Ok", kind |-> "none"]
IoErr(kind) == [tag |-> "Err", kind |-> kind]
NoReturn == [tag |-> "None", kind |-> "none"]

InitCodecVars ==
    /\ cstage = "init"
    /\ cfrom = "none"
    /\ crec = NoRecord
    /\ cbuf = << >>
    /\ cres = NoResult

InitSendVars ==
    /\ spc = "unbound"
    /\ items = << >>
    /\ idx = 0
    /\ serialized = 0
    /\ connects = << >>
    /\ attempts = << >>
    /\ wire = << >>
    /\ log = << >>
    /\ sres = NoReturn

\* n bytes b
Fill(b, n) == SubSeq([i \in 1..n |-> b], 1, n)

InitRecvVars ==
    /\ rpc = "unbound"
    /\ rtype = "none"
    /\ rtimeout = 0
    /\ rxq = << >>
    /\ arrived = 0
    /\ buf = Fill(0, UDP_MAX_PAYLOAD)
    /\ results = << >>
    /\ arrivals = << >>
    /\ recvs = << >>

\* the worker threads, in the order they are spawned
Workers == 1..MaxSpawns

\* what a listener worker holds in res outside the match (app.rs:214)
NoRes ==
    [tag |-> "None",
     value |-> [kind |-> "DummyData", id |-> U32(0, 0), data |-> << >>],
     err |-> [tag |-> "None", n |-> 0], kind |-> "none"]

\* app.rs:69-82  impl Default for App; no worker thread exists yet
InitAppVars ==
    /\ mode = "Send"
    /\ task = 0
    /\ status = "None"
    /\ applog = << >>
    /\ ui_pc = "top"
    /\ spawned = 0
    /\ wkind = [w \in Workers |-> "none"]
    /\ wpc = [w \in Workers |-> "none"]
    /\ wres = [w \in Workers |-> NoRes]
    /\ ctlq = [w \in Workers |-> 0]
    /\ ctl_rx = [w \in Workers |-> FALSE]
    /\ statq = [w \in Workers |-> << >>]
    /\ stat_rx = [w \in Workers |-> FALSE]
    /\ sent = [w \in Workers |-> << >>]
    /\ owed = [w \in Workers |-> 0]
    /\ since_stop = [w \in Workers |-> 0]
    /\ logmark = [w \in Workers |-> 0]

InitCodec ==
    InitCodecVars /\ InitSendVars /\ InitRecvVars /\ InitAppVars /\ InitLinkVars

\* a record is serialized (record.rs:55-59)
CodecSerialize ==
    /\ cstage = "init"
    /\ \E r \in Records :
         /\ crec' = r
         /\ cbuf' = to_udp(r)
    /\ cstage' = "serialized"
    /\ cfrom' = "record"
    /\ UNCHANGED cres
    /\ UNCHANGED << sendVars, recvVars, appVars, linkVars >>

\* a buffer arrives from elsewhere
CodecBuffer ==
    /\ cstage = "init"
    /\ \E b \in RawBuffers : cbuf' = b
    /\ cstage' = "raw"
    /\ cfrom' = "raw"
    /\ UNCHANGED << crec, cres >>
    /\ UNCHANGED << sendVars, recvVars, appVars, linkVars >>

\* the buffer is parsed (record.rs:38-51)
CodecParse ==
    /\ cstage \in { "serialized", "raw" }
    /\ cres' = from_udp(cbuf)
    /\ cstage' = "parsed"
    /\ UNCHANGED << cfrom, crec, cbuf >>
    /\ UNCHANGED << sendVars, recvVars, appVars, linkVars >>

NextCodec == CodecSerialize \/ CodecBuffer \/ CodecParse

SpecCodec == InitCodec /\ [][NextCodec]_vars

-----------------------------------------------------------------------------
(* Sender (udp.rs:78-110)                                                  *)

\* an item of the sequence given to send: a value of a type T: ToUdp, here a
\* Record (record.rs:54) or the tests' DummyData = Vec<u8> (udp.rs:118)
RecordItem(r) == [kind |-> "Record", id |-> r.id, data |-> r.data]
DummyItem(v) == [kind |-> "DummyData", id |-> U32(0, 0), data |-> v]

\* udp.rs:127-131  impl ToUdp for DummyData: self.clone()
dummy_to_udp(v) == v

\* udp.rs:100  item.to_udp(), dispatched on the item's type
ToUdp(item) ==
    IF item.kind = "Record"
    THEN to_udp(Record(item.id, item.data))
    ELSE dummy_to_udp(item.data)

\* udp.rs:133-142  construct_dummy_data: empty, short, and full-size
\* vectors; and vectors one byte too long
DummyItems ==
    { DummyItem(<< >>), DummyItem(<< 42, 1 >>) }
    \cup { DummyItem(Fill(b, n)) :
             b \in { 0, 255 }, n \in UDP_MAX_PAYLOAD..(UDP_MAX_PAYLOAD + 1) }

\* records with a short text and with texts from one byte under the payload
\* capacity upwards
RecordItems ==
    { RecordItem(Record(U32(0, 1), d)) :
        d \in { Str(<< 114 >>) } \cup { l \in LongStrings : Len(l) >= DataCap - 1 } }

SendItems == RecordItems \cup DummyItems

\* the sequences send is called with
ItemSeqs == UNION { [1..n -> SendItems] : n \in 0..MaxItems }

\* kinds of std::io::Error of sock.connect (udp.rs:98) and sock.send
\* (udp.rs:103, 105)
ConnectErrors == { "InvalidInput", "AddrNotAvailable" }
SendErrors == { "ConnectionRefused", "PermissionDenied" }

\* udp.rs:102  warn!("Item too large, truncated")
WarnTruncated == "Item too large, truncated"

\* udp.rs:101  item.len() > UDP_MAX_PAYLOAD
TooLarge(item) == Len(item) > UDP_MAX_PAYLOAD

\* a faulty slice: the whole serialization whatever its length
Datagram_Whole(item) == item

\* udp.rs:101-106  the slice given to sock.send: &item[..UDP_MAX_PAYLOAD]
\* or &item
Datagram(item) ==
    IF TooLarge(item) THEN SubSeq(item, 1, UDP_MAX_PAYLOAD) ELSE item

\* udp.rs:83-90  Sender::new: UdpSocket::bind(addr) succeeds
SenderNewOk ==
    /\ spc = "unbound"
    /\ spc' = "idle"
    /\ UNCHANGED << items, idx, serialized, connects, attempts, wire, log, sres >>
    /\ UNCHANGED << codecVars, recvVars, appVars, linkVars >>

\* udp.rs:88  UdpSocket::bind(addr)? fails: there is no Sender
SenderNewErr ==
    /\ spc = "unbound"
    /\ spc' = "bindfailed"
    /\ UNCHANGED << items, idx, serialized, connects, attempts, wire, log, sres >>
    /\ UNCHANGED << codecVars, recvVars, appVars, linkVars >>

\* udp.rs:92  send(iter, dest) is called
SendCall ==
    /\ spc = "idle"
    /\ \E its \in ItemSeqs : items' = its
    /\ spc' = "connect"
    /\ UNCHANGED << idx, serialized, connects, attempts, wire, log, sres >>
    /\ UNCHANGED << codecVars, recvVars, appVars, linkVars >>

\* udp.rs:98  self.sock.connect(dest) succeeds
ConnectOk ==
    /\ spc = "connect"
    /\ connects' = Append(connects, "ok")
    /\ spc' = "loop"
    /\ UNCHANGED << items, idx, serialized, attempts, wire, log, sres >>
    /\ UNCHANGED << codecVars, recvVars, appVars, linkVars >>

\* a faulty connect step: the error is recorded and the loop entered
ConnectErr_Ignored ==
    /\ spc = "connect"
    /\ \E e \in ConnectErrors : connects' = Append(connects, e)
    /\ spc' = "loop"
    /\ UNCHANGED << items, idx, serialized, attempts, wire, log, sres >>
    /\ UNCHANGED << codecVars, recvVars, appVars, linkVars >>

\* udp.rs:98  self.sock.connect(dest)? fails: send returns the error
ConnectErr ==
    /\ spc = "connect"
    /\ \E e \in ConnectErrors :
         /\ connects' = Append(connects, e)
         /\ sres' = IoErr(e)
    /\ spc' = "returned"
    /\ UNCHANGED << items, idx, serialized, attempts, wire, log >>
    /\ UNCHANGED << codecVars, recvVars, appVars, linkVars >>

\* a faulty loop body: the datagram is put before those already sent
SendItemOk_Prepend ==
    /\ spc = "loop"
    /\ idx < Len(items)
    /\ LET item == ToUdp(items[idx + 1])
       IN  /\ log' = IF TooLarge(item) THEN Append(log, WarnTruncated) ELSE log
           /\ attempts' = << [bytes |-> Datagram(item), res |-> "ok"] >> \o attempts
           /\ wire' = << Datagram(item) >> \o wire
    /\ serialized' = serialized + 1
    /\ idx' = idx + 1
    /\ UNCHANGED << spc, items, connects, sres >>
    /\ UNCHANGED << codecVars, recvVars, appVars, linkVars >>

\* a faulty loop body: an item that is too large is sent as two datagrams,
\* its first 508 bytes and the rest
SendItemOk_Split ==
    /\ spc = "loop"
    /\ idx < Len(items)
    /\ LET item == ToUdp(items[idx + 1])
           parts == IF TooLarge(item)
                    THEN << SubSeq(item, 1, UDP_MAX_PAYLOAD),
                            SubSeq(item, UDP_MAX_PAYLOAD + 1, Len(item)) >>
                    ELSE << item >>
       IN  /\ log' = IF TooLarge(item) THEN Append(log, WarnTruncated) ELSE log
           /\ attempts' = attempts \o [i \in 1..Len(parts) |->
                                         [bytes |-> parts[i], res |-> "ok"]]
           /\ wire' = wire \o parts
    /\ serialized' = serialized + 1
    /\ idx' = idx + 1
    /\ UNCHANGED << spc, items, connects, sres >>
    /\ UNCHANGED << codecVars, recvVars, appVars, linkVars >>

\* udp.rs:99-106  one turn of the loop, sock.send succeeds: the next item is
\* serialized, a warning logged if it is too large, and the slice transmitted
SendItemOk ==
    /\ spc = "loop"
    /\ idx < Len(items)
    /\ LET item == ToUdp(items[idx + 1])
       IN  /\ log' = IF TooLarge(item) THEN Append(log, WarnTruncated) ELSE log
           /\ attempts' = Append(attempts, [bytes |-> Datagram(item), res |-> "ok"])
           /\ wire' = Append(wire, Datagram(item))
    /\ serialized' = serialized + 1
    /\ idx' = idx + 1
    /\ UNCHANGED << spc, items, connects, sres >>
    /\ UNCHANGED << codecVars, recvVars, appVars, linkVars >>

\* a faulty loop body: the error of sock.send is dropped and the loop goes on
SendItemErr_Continue ==
    /\ spc = "loop"
    /\ idx < Len(items)
    /\ LET item == ToUdp(items[idx + 1])
       IN  /\ log' = IF TooLarge(item) THEN Append(log, WarnTruncated) ELSE log
           /\ \E e \in SendErrors :
                attempts' = Append(attempts, [bytes |-> Datagram(item), res |-> e])
    /\ serialized' = serialized + 1
    /\ idx' = idx + 1
    /\ UNCHANGED << spc, items, connects, wire, sres >>
    /\ UNCHANGED << codecVars, recvVars, appVars, linkVars >>

\* udp.rs:99-106  one turn of the loop, sock.send fails: nothing is
\* transmitted and send returns the error (the ? of lines 103 and 105)
SendItemErr ==
    /\ spc = "loop"
    /\ idx < Len(items)
    /\ LET item == ToUdp(items[idx + 1])
       IN  /\ log' = IF TooLarge(item) THEN Append(log, WarnTruncated) ELSE log
           /\ \E e \in SendErrors :
                /\ attempts' = Append(attempts, [bytes |-> Datagram(item), res |-> e])
                /\ sres' = IoErr(e)
    /\ serialized' = serialized + 1
    /\ idx' = idx + 1
    /\ spc' = "returned"
    /\ UNCHANGED << items, connects, wire >>
    /\ UNCHANGED << codecVars, recvVars, appVars, linkVars >>

\* a faulty return: an empty sequence is reported as an error
SendReturn_NothingSent ==
    /\ spc = "loop"
    /\ idx = Len(items)
    /\ sres' = IF idx = 0 THEN IoErr("InvalidInput") ELSE IoOk
    /\ spc' = "returned"
    /\ UNCHANGED << items, idx, serialized, connects, attempts, wire, log >>
    /\ UNCHANGED << codecVars, recvVars, appVars, linkVars >>

\* udp.rs:107-108  the iterator is exhausted: Ok(())
SendReturn ==
    /\ spc = "loop"
    /\ idx = Len(items)
    /\ sres' = IoOk
    /\ spc' = "returned"
    /\ UNCHANGED << items, idx, serialized, connects, attempts, wire, log >>
    /\ UNCHANGED << codecVars, recvVars, appVars, linkVars >>

InitSend ==
    InitCodecVars /\ InitSendVars /\ InitRecvVars /\ InitAppVars /\ InitLinkVars

NextSend ==
    \/ SenderNewOk
    \/ SenderNewErr
    \/ SendCall
    \/ ConnectOk
    \/ ConnectErr
    \/ SendItemOk
    \/ SendItemErr
    \/ SendReturn

SpecSend == InitSend /\ [][NextSend]_vars

-----------------------------------------------------------------------------
(* Receiver (udp.rs:42-76)                                                 *)

\* udp.rs:51  Duration::from_millis(100)
READ_TIMEOUT_MS == 100

NoItem == DummyItem(<< >>)
NoParseError == [tag |-> "None", n |-> 0]

\* Result<T, Error<T::Error>> (udp.rs:13-16, 64): Ok(value),
\* Err(Error::ParseError(e)), Err(Error::Io(e))
RecvOk(v) ==
    [tag |-> "Ok", value |-> v, err |-> NoParseError, kind |-> "none"]
RecvParseError(e) ==
    [tag |-> "ParseError", value |-> NoItem, err |-> e, kind |-> "none"]
RecvIo(kind) ==
    [tag |-> "Io", value |-> NoItem, err |-> NoParseError, kind |-> kind]

\* Option<Self::Item> (udp.rs:66)
Some(r) == [some |-> TRUE, res |-> r]
None == [some |-> FALSE, res |-> RecvIo("none")]

\* udp.rs:120-125  impl FromUdp for DummyData: Ok(buf.into())
dummy_from_udp(b) == b

\* a faulty mapping: the decoder's error is replaced by a fixed one
FromUdp_LosesError(T, b) ==
    IF T = "Record"
    THEN LET r == from_udp(b)
         IN  IF r.tag = "Ok"
             THEN RecvOk(RecordItem(r.value))
             ELSE RecvParseError([tag |-> "Invalid", n |-> 0])
    ELSE RecvOk(DummyItem(dummy_from_udp(b)))

\* T::from_udp(buf) as a Result<T, T::Error>, mapped as udp.rs:70 maps it
\* (map_err(Error::ParseError)), for the receiver's type T
FromUdp(T, b) ==
    IF T = "Record"
    THEN LET r == from_udp(b)
         IN  IF r.tag = "Ok"
             THEN RecvOk(RecordItem(r.value))
             ELSE RecvParseError([tag |-> r.tag, n |-> r.n])
    ELSE RecvOk(DummyItem(dummy_from_udp(b)))

\* a faulty blanket impl: datagrams from a source other than loopback are
\* refused
FromUdpSource_Filtering(T, b, source) ==
    IF source = "127.0.0.1:8570"
    THEN FromUdp(T, b)
    ELSE RecvParseError([tag |-> "Incomplete", n |-> 0])

\* udp.rs:28-36  the blanket impl FromUdpSource for T: FromUdp ignores the
\* source address
FromUdpSource(T, b, source) == FromUdp(T, b)

\* source addresses of datagrams
Addrs == { "127.0.0.1:8570", "10.0.0.2:9000" }

\* datagrams that may arrive: empty, too short, the buffers of the tests of
\* record.rs (lines 77, 87), a full-size record and a datagram one byte
\* longer than the scratch buffer
RecvPayloads ==
    { << >>, << 0, 0 >>, << 1, 0, 0, 0, 114 >>, << 1, 0, 0, 0, 195, 40 >>,
      to_le_bytes(U32(0, 42)) \o Fill(114, DataCap),
      Fill(255, UDP_MAX_PAYLOAD + 1) }

\* kinds of std::io::Error of recv_from when the read timeout expires (by
\* platform), and for another failure of the socket
TimeoutErrors == { "WouldBlock", "TimedOut" }
RecvErrors == { "ConnectionReset" }

\* a faulty Receiver::new: no read timeout is set
ReceiverNewOk_NoTimeout ==
    /\ rpc = "unbound"
    /\ \E T \in { "Record", "DummyData" } : rtype' = T
    /\ buf' = Fill(0, UDP_MAX_PAYLOAD)
    /\ rpc' = "listening"
    /\ UNCHANGED << rtimeout, rxq, arrived, results, arrivals, recvs >>
    /\ UNCHANGED << codecVars, sendVars, appVars, linkVars >>

\* udp.rs:49-57  Receiver::new: bind and set_read_timeout succeed
ReceiverNewOk ==
    /\ rpc = "unbound"
    /\ \E T \in { "Record", "DummyData" } : rtype' = T
    /\ rtimeout' = READ_TIMEOUT_MS
    /\ buf' = Fill(0, UDP_MAX_PAYLOAD)
    /\ rpc' = "listening"
    /\ UNCHANGED << rxq, arrived, results, arrivals, recvs >>
    /\ UNCHANGED << codecVars, sendVars, appVars, linkVars >>

\* udp.rs:50-51  bind or set_read_timeout fails: there is no Receiver
ReceiverNewErr ==
    /\ rpc = "unbound"
    /\ rpc' = "bindfailed"
    /\ UNCHANGED << rtype, rtimeout, rxq, arrived, buf, results, arrivals, recvs >>
    /\ UNCHANGED << codecVars, sendVars, appVars, linkVars >>

\* the datagrams that may arrive with their sources: one peer sends every
\* payload, a second one the buffers of the tests of record.rs
Datagrams ==
    { [bytes |-> b, src |-> "127.0.0.1:8570"] : b \in RecvPayloads }
    \cup { [bytes |-> b, src |-> "10.0.0.2:9000"] :
             b \in { << 1, 0, 0, 0, 114 >>, << 1, 0, 0, 0, 195, 40 >> } }

\* a datagram from some source reaches the bound socket
Arrive ==
    /\ rpc = "listening"
    /\ arrived < MaxArrivals
    /\ \E d \in Datagrams :
         /\ rxq' = Append(rxq, d)
         /\ arrivals' = Append(arrivals, d)
    /\ arrived' = arrived + 1
    /\ UNCHANGED << rpc, rtype, rtimeout, buf, results, recvs >>
    /\ UNCHANGED << codecVars, sendVars, appVars, linkVars >>

\* what recv_from leaves in a buffer b when it receives the datagram d: the
\* datagram's first bytes, as many as fit, over the start of b
Filled(b, d) ==
    LET len == IF Len(d) < Len(b) THEN Len(d) ELSE Len(b)
    IN  SubSeq(d, 1, len) \o SubSeq(b, len + 1, Len(b))

\* what a call of recv_from did: returned a datagram of len bytes from src,
\* of which slice was handed to the parser, or failed with an error of a kind
\* because the read timeout expired ("timeout") or otherwise ("error")
Received(len, src, slice) ==
    [cause |-> "datagram", len |-> len, src |-> src, parsed |-> TRUE,
     slice |-> slice, kind |-> "none"]
RecvFailed(cause, kind) ==
    [cause |-> cause, len |-> 0, src |-> "none", parsed |-> FALSE,
     slice |-> << >>, kind |-> kind]

\* a faulty recv_from: the newest waiting datagram is read first
Newest(q) == q[Len(q)]

\* udp.rs:67  recv_from reads the datagram that has waited longest
Oldest(q) == Head(q)

\* a faulty slice: the whole scratch buffer
ParsedSlice_Whole(b, len) == b

\* udp.rs:70  &self.buf[..len]
ParsedSlice(b, len) == SubSeq(b, 1, len)

\* udp.rs:66-72  next, recv_from returns Ok((len, src)): the oldest datagram
\* is copied into buf (what does not fit is discarded) and buf[..len] parsed
RecvDatagram ==
    /\ rpc = "listening"
    /\ Len(results) < MaxCalls
    /\ rxq # << >>
    /\ LET d == Oldest(rxq)
           len == IF Len(d.bytes) < UDP_MAX_PAYLOAD
                  THEN Len(d.bytes) ELSE UDP_MAX_PAYLOAD
           nbuf == Filled(buf, d.bytes)
           slice == ParsedSlice(nbuf, len)
       IN  /\ buf' = nbuf
           /\ results' = Append(results, Some(FromUdpSource(rtype, slice, d.src)))
           /\ recvs' = Append(recvs, Received(len, d.src, slice))
    /\ rxq' = Tail(rxq)
    /\ UNCHANGED << rpc, rtype, rtimeout, arrived, arrivals >>
    /\ UNCHANGED << codecVars, sendVars, appVars, linkVars >>

\* a faulty next: a timeout ends the iteration
RecvTimeout_None ==
    /\ rpc = "listening"
    /\ Len(results) < MaxCalls
    /\ rxq = << >>
    /\ rtimeout > 0
    /\ results' = Append(results, None)
    /\ \E e \in TimeoutErrors : recvs' = Append(recvs, RecvFailed("timeout", e))
    /\ UNCHANGED << rpc, rtype, rtimeout, rxq, arrived, buf, arrivals >>
    /\ UNCHANGED << codecVars, sendVars, appVars, linkVars >>

\* udp.rs:66-67, 73  next, no datagram within the read timeout: recv_from
\* returns Err(e), next returns Some(Err(Error::Io(e)))
RecvTimeout ==
    /\ rpc = "listening"
    /\ Len(results) < MaxCalls
    /\ rxq = << >>
    /\ rtimeout > 0
    /\ \E e \in TimeoutErrors :
         /\ results' = Append(results, Some(RecvIo(e)))
         /\ recvs' = Append(recvs, RecvFailed("timeout", e))
    /\ UNCHANGED << rpc, rtype, rtimeout, rxq, arrived, buf, arrivals >>
    /\ UNCHANGED << codecVars, sendVars, appVars, linkVars >>

\* udp.rs:66-67, 73  next, recv_from fails for another reason
RecvIoErr ==
    /\ rpc = "listening"
    /\ Len(results) < MaxCalls
    /\ \E e \in RecvErrors :
         /\ results' = Append(results, Some(RecvIo(e)))
         /\ recvs' = Append(recvs, RecvFailed("error", e))
    /\ UNCHANGED << rpc, rtype, rtimeout, rxq, arrived, buf, arrivals >>
    /\ UNCHANGED << codecVars, sendVars, appVars, linkVars >>

InitRecv ==
    InitCodecVars /\ InitSendVars /\ InitRecvVars /\ InitAppVars /\ InitLinkVars

NextRecv ==
    \/ ReceiverNewOk
    \/ ReceiverNewErr
    \/ Arrive
    \/ RecvDatagram
    \/ RecvTimeout
    \/ RecvIoErr

SpecRecv == InitRecv /\ [][NextRecv]_vars

-----------------------------------------------------------------------------
(* Properties of the record codec, checked under SpecCodec                 *)

\* x is the UTF-8 encoding of one Unicode scalar value: the value its bits
\* spell is a scalar value and encodes back to x (so x is not overlong)
EncodesOneChar(x) ==
    LET w == Len(x)
        c == IF w = 1 THEN x[1]
             ELSE IF w = 2 THEN (x[1] % 32) * 64 + (x[2] % 64)
             ELSE IF w = 3 THEN
                 (x[1] % 16) * 4096 + (x[2] % 64) * 64 + (x[3] % 64)
             ELSE (x[1] % 8) * 262144 + (x[2] % 64) * 4096
                      + (x[3] % 64) * 64 + (x[4] % 64)
    IN  /\ c <= 1114111
        /\ ~ (c >= 55296 /\ c <= 57343)
        /\ Utf8EncodeChar(c) = x

\* b is valid UTF-8: a concatenation of encodings of scalar values
RECURSIVE WellFormedUtf8(_)
WellFormedUtf8(b) ==
    \/ b = << >>
    \/ \E w \in 1..4 :
         /\ w <= Len(b)
         /\ EncodesOneChar(SubSeq(b, 1, w))
         /\ WellFormedUtf8(SubSeq(b, w + 1, Len(b)))

\* C1: parsing the serialization of a record whose serialized form fits the
\* maximum payload (4 + byte length of data <= 508) succeeds and returns a
\* record equal to the original, id and data.
C1_RoundTrip ==
    ( /\ cstage = "parsed"
      /\ cfrom = "record"
      /\ 4 + Len(crec.data) <= 508 )
    => /\ cres.tag = "Ok"
       /\ cres.value.id = crec.id
       /\ cres.value.data = crec.data
       /\ cres.value = crec

\* a record with the largest id and multi-byte text whose serialization is
\* exactly 508 bytes has been serialized and parsed back
C1_Witness ==
    /\ cstage = "parsed"
    /\ cfrom = "record"
    /\ crec.id = U32(65535, 65535)
    /\ Len(cbuf) = 508
    /\ crec.data[Len(crec.data)] > 127
    /\ cres.tag = "Ok"

\* C2: parsing a buffer of length n < 4 fails with Incomplete(n), carrying
\* exactly the buffer's length; it returns neither a record nor Invalid.
C2_Incomplete ==
    (cstage = "parsed" /\ Len(cbuf) < 4)
    => /\ cres.tag = "Incomplete"
       /\ cres.n = Len(cbuf)

\* a two-byte buffer has been parsed (record.rs:70-72)
C2_Witness ==
    /\ cstage = "parsed"
    /\ Len(cbuf) = 2
    /\ cres.tag = "Incomplete"
    /\ cres.n = 2

\* C3: parsing a buffer of length >= 4 whose bytes from offset 4 on are not
\* valid UTF-8 fails with Invalid, whatever the first four bytes are; it
\* returns neither a record nor Incomplete.  (Stated over the raw buffers.)
C3_InvalidEncoding ==
    ( /\ cstage = "parsed"
      /\ cfrom = "raw"
      /\ Len(cbuf) >= 4
      /\ ~ WellFormedUtf8(SubSeq(cbuf, 5, Len(cbuf))) )
    => cres.tag = "Invalid"

\* the buffer of record.rs:87, id 1 followed by 0xC3 0x28, has been parsed
C3_Witness ==
    /\ cstage = "parsed"
    /\ cbuf = << 1, 0, 0, 0, 195, 40 >>
    /\ cres.tag = "Invalid"

\* C4: the serialization of a record is the 4-byte little-endian encoding of
\* its id followed by the bytes of its data: 4 + byte length of data bytes
\* long, hence at least 4.
C4_WireLayout ==
    (cstage \in { "serialized", "parsed" } /\ cfrom = "record")
    => /\ Len(cbuf) = 4 + Len(crec.data)
       /\ Len(cbuf) >= 4
       /\ \A i \in 1..4 : cbuf[i] \in 0..255
       /\ cbuf[1] + 256 * cbuf[2] = crec.id.lo
       /\ cbuf[3] + 256 * cbuf[4] = crec.id.hi
       /\ \A i \in 1..Len(crec.data) : cbuf[4 + i] = crec.data[i]

\* the record with id 1732454 = 0x001A6F66 and empty data has been
\* serialized to exactly the four bytes 66 6F 1A 00
C4_Witness ==
    /\ cstage = "serialized"
    /\ crec.id = U32(26, 28518)
    /\ crec.data = << >>
    /\ cbuf = << 102, 111, 26, 0 >>

-----------------------------------------------------------------------------
(* Properties of Sender::send, checked under SpecSend                      *)

\* the items whose full serialization is longer than 508 bytes, among the
\* first n of the sequence
Oversized(n) == { k \in 1..n : Len(ToUdp(items[k])) > 508 }

\* C5: for every item whose serialization is longer than 508 bytes, send
\* hands the socket exactly one slice for that item, of exactly 508 bytes
\* and equal to the first 508 bytes of the serialization, and logs one
\* warning; no datagram transmitted is ever longer than 508 bytes.
C5_Truncation ==
    /\ Len(attempts) = idx
    /\ \A k \in Oversized(Len(attempts)) :
         /\ Len(attempts[k].bytes) = 508
         /\ \A i \in 1..508 : attempts[k].bytes[i] = ToUdp(items[k])[i]
    /\ Len(log) = Cardinality(Oversized(Len(attempts)))
    /\ \A j \in 1..Len(log) : log[j] = "Item too large, truncated"
    /\ \A a \in 1..Len(attempts) : Len(attempts[a].bytes) <= 508
    /\ \A d \in 1..Len(wire) : Len(wire[d]) <= 508
    /\ (sres.tag = "Ok") =>
         \A k \in Oversized(Len(items)) :
            Len(wire) = Len(items) /\ wire[k] = attempts[k].bytes

\* send has returned Ok after sending a record whose serialization is 510
\* bytes of two-byte characters and a 509-byte vector: two 508-byte
\* datagrams and two warnings
C5_Witness ==
    /\ sres.tag = "Ok"
    /\ Len(items) = 2
    /\ items[1].kind = "Record"
    /\ Len(ToUdp(items[1])) = 510
    /\ items[1].data[1] > 127
    /\ Len(ToUdp(items[2])) = 509
    /\ Len(wire) = 2
    /\ Len(wire[1]) = 508
    /\ Len(wire[2]) = 508
    /\ Len(log) = 2

\* no connect and no sock.send has failed
NoIoFailure ==
    /\ \A c \in 1..Len(connects) : connects[c] = "ok"
    /\ \A a \in 1..Len(attempts) : attempts[a].res = "ok"

\* C6: when no I/O failure occurs, send over n items makes exactly n
\* transmission attempts, the k-th carrying the serialization of the k-th
\* item; an item of at most 508 bytes (a 0-byte and a 508-byte one included)
\* is transmitted unmodified and without a warning.
C6_OnePerRecordInOrder ==
    /\ NoIoFailure =>
         /\ Len(attempts) = idx
         /\ Len(wire) = idx
         /\ \A k \in 1..idx :
              LET full == ToUdp(items[k])
              IN  /\ wire[k] = attempts[k].bytes
                  /\ Len(full) <= 508 => wire[k] = full
                  /\ Len(full) > 508 => wire[k] = SubSeq(full, 1, 508)
         /\ Oversized(idx) = { } => log = << >>
    /\ (spc = "returned" /\ NoIoFailure) =>
         /\ sres.tag = "Ok"
         /\ idx = Len(items)

\* send has returned Ok after sending a 0-byte item and then a 508-byte
\* record, both unmodified, in that order, without a warning
C6_Witness ==
    /\ spc = "returned"
    /\ sres.tag = "Ok"
    /\ Len(items) = 2
    /\ items[1].data = << >>
    /\ items[1].kind = "DummyData"
    /\ items[2].kind = "Record"
    /\ Len(wire) = 2
    /\ wire[1] = << >>
    /\ Len(wire[2]) = 508
    /\ wire[2] = ToUdp(items[2])
    /\ log = << >>

\* C7: send stops at the first I/O failure: if transmitting the k-th item
\* fails, send returns that error, items k+1.. are neither serialized nor
\* transmitted, the failed item is not retried, and the k-1 datagrams
\* already transmitted are neither resent nor undone; send returns Ok only
\* if the transmission of every item succeeded.
C7_StopAtFirstFailure ==
    /\ \A k \in 1..Len(attempts) :
         attempts[k].res # "ok" =>
            /\ k = Len(attempts)
            /\ spc = "returned"
            /\ sres.tag = "Err"
            /\ sres.kind = attempts[k].res
            /\ serialized = k
            /\ idx = k
            /\ Len(wire) = k - 1
            /\ \A j \in 1..(k - 1) :
                 /\ attempts[j].res = "ok"
                 /\ wire[j] = attempts[j].bytes
                 /\ wire[j] = SubSeq(ToUdp(items[j]), 1, Len(wire[j]))
    /\ Len(attempts) <= Len(items)
    /\ serialized = Len(attempts)
    /\ (sres.tag = "Ok") =>
         /\ Len(wire) = Len(items)
         /\ Len(attempts) = Len(items)
         /\ \A k \in 1..Len(attempts) : attempts[k].res = "ok"

\* the transmission of the second of two items has failed: one datagram is
\* on the wire and send has returned the error
C7_Witness ==
    /\ spc = "returned"
    /\ Len(items) = 2
    /\ Len(attempts) = 2
    /\ attempts[2].res = "ConnectionRefused"
    /\ sres = [tag |-> "Err", kind |-> "ConnectionRefused"]
    /\ Len(wire) = 1

\* C8 (as claimed): send with an empty sequence succeeds and transmits zero
\* datagrams.
C8_EmptySend ==
    (spc = "returned" /\ items = << >>)
    => (sres.tag = "Ok" /\ wire = << >>)

\* C8 (amended): send with an empty sequence transmits zero datagrams, and it
\* succeeds if establishing the default destination succeeded; if that
\* failed it returns the connect error.
C8_EmptySendAmended ==
    (spc = "returned" /\ items = << >>)
    => /\ wire = << >>
       /\ attempts = << >>
       /\ Len(connects) = 1
       /\ connects[1] = "ok" => sres.tag = "Ok"
       /\ connects[1] # "ok" => (sres.tag = "Err" /\ sres.kind = connects[1])

\* send with an empty sequence has connected and returned
C8_Witness ==
    /\ spc = "returned"
    /\ items = << >>
    /\ connects = << "ok" >>
    /\ sres.tag = "Ok"
    /\ wire = << >>

\* C9: if establishing the default destination fails, send returns that
\* error at once, without retry, having serialized and transmitted no item
\* of the sequence, whatever its length.
C9_ConnectFailure ==
    (Len(connects) >= 1 /\ connects[1] # "ok")
    => /\ spc = "returned"
       /\ sres.tag = "Err"
       /\ sres.kind = connects[1]
       /\ Len(connects) = 1
       /\ serialized = 0
       /\ idx = 0
       /\ attempts = << >>
       /\ wire = << >>
       /\ log = << >>

\* connect has failed for a send of two items
C9_Witness ==
    /\ spc = "returned"
    /\ Len(items) = 2
    /\ connects = << "AddrNotAvailable" >>
    /\ sres = [tag |-> "Err", kind |-> "AddrNotAvailable"]
    /\ serialized = 0

-----------------------------------------------------------------------------
(* Properties of Receiver::next, checked under SpecRecv                    *)

\* C10: after any history of received datagrams, timeouts, I/O errors and
\* parse errors, every call of next returns Some(result), never None: the
\* iterator never signals its end.
C10_NeverNone ==
    \A k \in 1..Len(results) :
        /\ results[k].some
        /\ results[k].res.tag \in { "Ok", "ParseError", "Io" }

\* three calls of next have returned a parse error, a timeout and a record,
\* one after the other
C10_Witness ==
    /\ Len(results) = 3
    /\ results[1].res.tag = "ParseError"
    /\ results[2].res.tag = "Io"
    /\ results[2].res.kind = "WouldBlock"
    /\ results[3].res.tag = "Ok"
    /\ \A k \in 1..3 : results[k].some

\* the calls of recv_from, among the first k, that returned a datagram
DatagramCalls(k) == { i \in 1..k : recvs[i].cause = "datagram" }

\* the bytes recv_from delivers of the datagram read by its k-th call: the
\* datagram (the next in arrival order), cut to the 508 bytes of the buffer
ReceivedBytes(k) ==
    LET d == arrivals[Cardinality(DatagramCalls(k))].bytes
    IN  IF Len(d) <= 508 THEN d ELSE SubSeq(d, 1, 508)

\* C11: each call of next makes exactly one receive attempt and returns
\* exactly one result for it: Ok(value) if a datagram was received and the
\* parse of exactly its received bytes succeeded, Err(ParseError(e)) with the
\* decoder's error e if the parse failed, Err(Io(e)) with the socket's error
\* if the receive failed; no datagram and no timeout is skipped.
C11_Classification ==
    /\ Len(results) = Len(recvs)
    /\ Cardinality(DatagramCalls(Len(recvs))) = Len(arrivals) - Len(rxq)
    /\ \A k \in 1..Len(results) :
         LET a == recvs[k]
             r == results[k].res
         IN  /\ results[k].some
             /\ (a.cause = "datagram" /\ rtype = "Record") =>
                  LET p == from_udp(ReceivedBytes(k))
                  IN  IF p.tag = "Ok"
                      THEN /\ r.tag = "Ok"
                           /\ r.value.id = p.value.id
                           /\ r.value.data = p.value.data
                      ELSE /\ r.tag = "ParseError"
                           /\ r.err.tag = p.tag
                           /\ r.err.n = p.n
             /\ (a.cause = "datagram" /\ rtype = "DummyData") =>
                  /\ r.tag = "Ok"
                  /\ r.value.data = ReceivedBytes(k)
             /\ a.cause # "datagram" =>
                  /\ r.tag = "Io"
                  /\ r.kind = a.kind

\* a Receiver<Record> has returned, for three calls, Incomplete(2) for a
\* two-byte datagram, the socket's ConnectionReset, and a record
C11_Witness ==
    /\ rtype = "Record"
    /\ Len(results) = 3
    /\ results[1].res.tag = "ParseError"
    /\ results[1].res.err = [tag |-> "Incomplete", n |-> 2]
    /\ results[2].res.tag = "Io"
    /\ results[2].res.kind = "ConnectionReset"
    /\ results[3].res.tag = "Ok"
    /\ results[3].res.value.data = << 114 >>

NotIo(r) == r.res.tag # "Io"

\* C12: if the datagrams that arrive are each at most 508 bytes, the results
\* of next that are not I/O errors are the parse results of the datagrams in
\* arrival order, one per datagram read, duplicates and empty datagrams
\* included: none is merged, skipped or dropped.
C12_ArrivalOrder ==
    (\A i \in 1..Len(arrivals) : Len(arrivals[i].bytes) <= 508)
    => LET got == SelectSeq(results, NotIo)
       IN  /\ Len(got) = Len(arrivals) - Len(rxq)
           /\ \A k \in 1..Len(got) :
                got[k] = Some(FromUdp(rtype, arrivals[k].bytes))

\* the same datagram has arrived twice, with a timeout between the two
\* reads: two equal results around the I/O error
C12_Witness ==
    /\ Len(arrivals) = 2
    /\ arrivals[1].bytes = << 1, 0, 0, 0, 114 >>
    /\ arrivals[2].bytes = arrivals[1].bytes
    /\ Len(results) = 3
    /\ results[1].res.tag = "Ok"
    /\ results[2].res.tag = "Io"
    /\ results[3] = results[1]

\* C13: a call of next with nothing to read returns: the receiver has a read
\* timeout from its construction, so the call ends with the timeout, and what
\* it then returns is Err(Io) of kind timeout or would-block; on a receiver
\* at which nothing has arrived every result is an Err(Io).
C13_IdleTimeout ==
    /\ rpc = "listening" => rtimeout = 100
    /\ (rpc = "listening" /\ rxq = << >> /\ Len(results) < MaxCalls)
         => ENABLED RecvTimeout
    /\ \A k \in 1..Len(results) :
         /\ recvs[k].cause = "timeout" =>
              /\ results[k].some
              /\ results[k].res.tag = "Io"
              /\ results[k].res.kind \in { "WouldBlock", "TimedOut" }
         /\ arrivals = << >> =>
              /\ results[k].some
              /\ results[k].res.tag = "Io"

\* two calls in a row on a receiver at which nothing has arrived have each
\* returned a timeout
C13_Witness ==
    /\ arrivals = << >>
    /\ Len(results) = 2
    /\ results[1].res.tag = "Io"
    /\ results[1].res.kind = "WouldBlock"
    /\ results[2].res.tag = "Io"
    /\ results[2].res.kind = "WouldBlock"

\* C14: the address-aware parse provided for a type with an address-unaware
\* parse returns, for every buffer and every source address, the result of
\* the address-unaware parse: datagrams with the same bytes give the same
\* result whatever their sources.
C14_IgnoresSource ==
    /\ \A k \in DatagramCalls(Len(recvs)) :
         /\ results[k].res = FromUdp(rtype, recvs[k].slice)
         /\ \A a \in Addrs :
              FromUdpSource(rtype, recvs[k].slice, a) = FromUdp(rtype, recvs[k].slice)
    /\ \A j, k \in DatagramCalls(Len(recvs)) :
         recvs[j].slice = recvs[k].slice => results[j] = results[k]

\* the same bytes have been received from two different sources, with the
\* same result
C14_Witness ==
    /\ Len(recvs) = 2
    /\ recvs[1].cause = "datagram"
    /\ recvs[2].cause = "datagram"
    /\ recvs[1].slice = << 1, 0, 0, 0, 114 >>
    /\ recvs[2].slice = recvs[1].slice
    /\ recvs[1].src # recvs[2].src
    /\ results[1] = results[2]
    /\ results[1].res.tag = "Ok"

\* C20: the slice handed to the parser by a successful receive is exactly
\* the bytes of the datagram read (its first 508 bytes if it is longer), at
\* most 508 bytes long, with no byte left in the scratch buffer by an
\* earlier, longer datagram; a failed receive hands nothing to the parser.
C20_NoLeak ==
    \A k \in 1..Len(recvs) :
        IF recvs[k].cause = "datagram"
        THEN LET d == arrivals[Cardinality(DatagramCalls(k))].bytes
                 n == IF Len(d) <= 508 THEN Len(d) ELSE 508
             IN  /\ recvs[k].parsed
                 /\ Len(recvs[k].slice) = n
                 /\ Len(recvs[k].slice) <= 508
                 /\ \A i \in 1..n : recvs[k].slice[i] = d[i]
                 /\ rtype = "DummyData" =>
                      /\ Len(results[k].res.value.data) = n
                      /\ \A i \in 1..n : results[k].res.value.data[i] = d[i]
        ELSE /\ ~ recvs[k].parsed
             /\ results[k].res.tag = "Io"

\* a 508-byte datagram and then a 5-byte one have been received: the scratch
\* buffer still holds bytes of the first behind the second, the slice parsed
\* does not
C20_Witness ==
    /\ Len(recvs) = 2
    /\ rtype = "DummyData"
    /\ recvs[1].len = 508
    /\ recvs[2].len = 5
    /\ buf[6] = 114
    /\ recvs[2].slice = << 1, 0, 0, 0, 114 >>
    /\ results[2].res.value.data = << 1, 0, 0, 0, 114 >>

-----------------------------------------------------------------------------
(* The application: app.rs                                                 *)

\* app.rs:11-14  enum Mode
Modes == { "Send", "Listen" }

\* app.rs:31-42  enum StatusMessage; text is the message without what is
\* formatted into it, rec the record formatted into "Got record [id : data]"
Success == [level |-> "Success", text |-> "", rec |-> NoRecord]
Failure(text) == [level |-> "Failure", text |-> text, rec |-> NoRecord]
Warning(text) == [level |-> "Warning", text |-> text, rec |-> NoRecord]
Info(text) == [level |-> "Info", text |-> text, rec |-> NoRecord]
GotRecord(r) == [level |-> "Info", text |-> "Got record", rec |-> r]

\* the messages on which update clears the task (app.rs:286-296)
Terminal == { "Success", "Failure" }

\* app.rs:291-292, 298-299, 303-304  format!("{}\n", status) pushed to the log
LogLine(m) == [text |-> m.text, rec |-> m.rec]

\* mpsc::Sender::send(..).unwrap() on the status channel of worker w, then
\* the worker goes on at pc; the send fails when the Receiver has been
\* dropped, the unwrap then panics and unwinding drops control_receiver
StatusSend(w, m, pc) ==
    IF stat_rx[w]
    THEN /\ statq' = [statq EXCEPT ![w] = Append(@, m)]
         /\ sent' = [sent EXCEPT ![w] = Append(@, m)]
         /\ wpc' = [wpc EXCEPT ![w] = pc]
         /\ ctl_rx' = ctl_rx
    ELSE /\ statq' = statq
         /\ sent' = sent
         /\ wpc' = [wpc EXCEPT ![w] = "panicked"]
         /\ ctl_rx' = [ctl_rx EXCEPT ![w] = FALSE]

\* what is kept about worker w as long as its thread or its Task exists
workerRecord == << wkind, wpc, sent, owed, since_stop, logmark >>

\* the thread of worker w has returned and its Task has been dropped:
\* nothing of it remains
Forget(w) ==
    /\ wkind' = [wkind EXCEPT ![w] = "none"]
    /\ wpc' = [wpc EXCEPT ![w] = "none"]
    /\ sent' = [sent EXCEPT ![w] = << >>]
    /\ owed' = [owed EXCEPT ![w] = 0]
    /\ since_stop' = [since_stop EXCEPT ![w] = 0]
    /\ logmark' = [logmark EXCEPT ![w] = 0]

\* app.rs:266-281  update, top panel: the mode selector is enabled only
\* while task is None; the user selects a mode or leaves it
UiTop ==
    /\ ui_pc = "top"
    /\ \E m \in Modes :
         /\ task = 0 \/ m = mode
         /\ mode' = m
    /\ ui_pc' = "poll"
    /\ UNCHANGED << task, status, applog, spawned, wkind, wpc, wres, ctlq,
                    ctl_rx, statq, stat_rx, sent, owed, since_stop, logmark >>
    /\ UNCHANGED << codecVars, sendVars, recvVars, linkVars >>

\* a faulty status poll: any message clears the task
UiPoll_ClearsOnAny ==
    /\ ui_pc = "poll"
    /\ IF task # 0 /\ statq[task] # << >>
       THEN LET m == Head(statq[task])
            IN  /\ statq' = [statq EXCEPT ![task] = Tail(@)]
                /\ applog' = IF m.level = "Success" THEN applog
                             ELSE Append(applog, LogLine(m))
                /\ status' = IF m.level = "Failure" THEN "Some(false)"
                             ELSE "Some(true)"
                /\ task' = 0
                /\ stat_rx' = [stat_rx EXCEPT ![task] = FALSE]
                /\ IF wpc[task] = "done"
                   THEN Forget(task)
                   ELSE UNCHANGED workerRecord
       ELSE UNCHANGED << statq, applog, status, task, stat_rx, workerRecord >>
    /\ ui_pc' = "panel"
    /\ UNCHANGED << mode, spawned, wres, ctlq, ctl_rx >>
    /\ UNCHANGED << codecVars, sendVars, recvVars, linkVars >>

\* app.rs:283-309  update, status handling: at most one try_recv per frame;
\* Success and Failure set status and drop the Task (and with it the status
\* Receiver and the control Sender), Failure, Warning and Info are logged
UiPoll ==
    /\ ui_pc = "poll"
    /\ IF task # 0 /\ statq[task] # << >>
       THEN LET m == Head(statq[task])
            IN  /\ statq' = [statq EXCEPT ![task] = Tail(@)]
                /\ applog' = IF m.level = "Success" THEN applog
                             ELSE Append(applog, LogLine(m))
                /\ status' = IF m.level = "Success" THEN "Some(true)"
                             ELSE IF m.level = "Failure" THEN "Some(false)"
                             ELSE status
                /\ IF m.level \in Terminal
                   THEN /\ task' = 0
                        /\ stat_rx' = [stat_rx EXCEPT ![task] = FALSE]
                        /\ IF wpc[task] = "done"
                           THEN Forget(task)
                           ELSE UNCHANGED workerRecord
                   ELSE UNCHANGED << task, stat_rx, workerRecord >>
       ELSE UNCHANGED << statq, applog, status, task, stat_rx, workerRecord >>
    /\ ui_pc' = "panel"
    /\ UNCHANGED << mode, spawned, wres, ctlq, ctl_rx >>
    /\ UNCHANGED << codecVars, sendVars, recvVars, linkVars >>

\* app.rs:311-336  update, central panel with no button clicked
UiNoClick ==
    /\ ui_pc = "panel"
    /\ ui_pc' = "top"
    /\ UNCHANGED << mode, task, status, applog, spawned, wkind, wpc, wres,
                    ctlq, ctl_rx, statq, stat_rx, sent, owed, since_stop,
                    logmark >>
    /\ UNCHANGED << codecVars, sendVars, recvVars, linkVars >>

\* app.rs:103-114, 189-199  the channels are made, the Task is stored and a
\* worker thread of the given kind is spawned
Spawn(kind, pc) ==
    /\ spawned < MaxSpawns
    /\ LET w == spawned + 1
       IN  /\ spawned' = w
           /\ task' = w
           /\ wkind' = [wkind EXCEPT ![w] = kind]
           /\ wpc' = [wpc EXCEPT ![w] = pc]
           /\ ctl_rx' = [ctl_rx EXCEPT ![w] = TRUE]
           /\ stat_rx' = [stat_rx EXCEPT ![w] = TRUE]
           /\ logmark' = [logmark EXCEPT ![w] = Len(applog)]
    /\ UNCHANGED << mode, status, applog, wres, ctlq, statq, sent, owed,
                    since_stop >>
    /\ UNCHANGED << codecVars, sendVars, recvVars, linkVars >>

\* app.rs:99-114  App::sender: the Run button exists only while task is None
UiRun ==
    /\ ui_pc = "panel"
    /\ mode = "Send"
    /\ task = 0
    /\ Spawn("sender", "start")
    /\ ui_pc' = "top"

\* app.rs:187-199  App::listener: the Listen button, while task is None
UiListen ==
    /\ ui_pc = "panel"
    /\ mode = "Listen"
    /\ task = 0
    /\ Spawn("listener", "bind")
    /\ ui_pc' = "top"

\* app.rs:183-186  App::listener: the Stop button, while task is Some:
\* task.control.send(ControlMessage::Stop).unwrap() panics when the worker
\* has dropped control_receiver
UiStop ==
    /\ ui_pc = "panel"
    /\ mode = "Listen"
    /\ task # 0
    /\ IF ctl_rx[task]
       THEN /\ ctlq[task] < MaxStops
            /\ ctlq' = [ctlq EXCEPT ![task] = @ + 1]
            /\ ui_pc' = "top"
       ELSE /\ ctlq' = ctlq
            /\ ui_pc' = "panicked"
    /\ UNCHANGED << mode, task, status, applog, spawned, wkind, wpc, wres,
                    ctl_rx, statq, stat_rx, sent, owed, since_stop, logmark >>
    /\ UNCHANGED << codecVars, sendVars, recvVars, linkVars >>

\* what the worker's steps leave alone in the App
uiVars == << mode, task, status, applog, ui_pc, spawned, stat_rx, logmark >>

\* app.rs:200-207  the listener worker: Receiver::new fails, Failure is sent
\* and ? returns from the closure
ListenerBindErr(w) ==
    /\ wkind[w] = "listener"
    /\ wpc[w] = "bind"
    /\ StatusSend(w, Failure("Couldn't bind to address"), "exiting")
    /\ UNCHANGED << wkind, wres, ctlq, owed, since_stop >>
    /\ UNCHANGED << uiVars, codecVars, sendVars, recvVars, linkVars >>

\* app.rs:200-211  Receiver::new succeeds and Info("Listening on ..") is sent
ListenerBindOk(w) ==
    /\ wkind[w] = "listener"
    /\ wpc[w] = "bind"
    /\ StatusSend(w, Info("Listening on"), "loop")
    /\ UNCHANGED << wkind, wres, ctlq, owed, since_stop >>
    /\ UNCHANGED << uiVars, codecVars, sendVars, recvVars, linkVars >>

\* app.rs:214  udp_receiver.next() is called and blocks in recv_from
ListenerCallNext(w) ==
    /\ wkind[w] = "listener"
    /\ wpc[w] = "loop"
    /\ wpc' = [wpc EXCEPT ![w] = "innext"]
    /\ since_stop' = [since_stop EXCEPT
                        ![w] = IF ctlq[w] > 0 /\ @ < 2 THEN @ + 1 ELSE @]
    /\ UNCHANGED << wkind, wres, ctlq, ctl_rx, statq, sent, owed >>
    /\ UNCHANGED << uiVars, codecVars, sendVars, recvVars, linkVars >>

\* the datagrams a listener is sent: too short, the buffers of the tests of
\* record.rs (lines 77, 87)
ListenPayloads == { << 0, 0 >>, << 1, 0, 0, 0, 114 >>, << 1, 0, 0, 0, 195, 40 >> }

\* what next of a Receiver<Record> may return (udp.rs:66-75): the parse of
\* a datagram, or the I/O error of recv_from, a timeout included
NextResults ==
    { Some(FromUdpSource("Record", p, a)) : p \in ListenPayloads, a \in Addrs }
    \cup { Some(RecvIo(e)) : e \in TimeoutErrors \cup RecvErrors }

\* whether the match of app.rs:215-236 sends a status message for res
Reported(res) == res.tag # "Io" \/ res.kind \notin TimeoutErrors

\* the texts of the messages that match sends (app.rs:217, 222, 230)
ReportTexts ==
    { "Got record", "Got corrupted packet", "Error while reading from socket" }

\* how many reports the listen loops have sent or are about to send
Reports ==
    Cardinality({ p \in Workers \X (1..(MaxReports + 3)) :
                    /\ p[2] <= Len(sent[p[1]])
                    /\ sent[p[1]][p[2]].text \in ReportTexts })
    + Cardinality({ w \in Workers : wres[w].tag # "None" /\ Reported(wres[w]) })

\* a faulty receiver under the listener: recv_from has no timeout, next
\* returns only when a datagram or an error is there
ListenerNextReturns_Blocking(w) ==
    /\ wkind[w] = "listener"
    /\ wpc[w] = "innext"
    /\ \E r \in NextResults :
         /\ r.some
         /\ Reported(r.res)
         /\ Reports < MaxReports
         /\ wres' = [wres EXCEPT ![w] = r.res]
    /\ wpc' = [wpc EXCEPT ![w] = "match"]
    /\ owed' = [owed EXCEPT ![w] = @ + 1]
    /\ UNCHANGED << wkind, ctlq, ctl_rx, statq, sent, since_stop >>
    /\ UNCHANGED << uiVars, codecVars, sendVars, recvVars, linkVars >>

\* app.rs:214  next returns Some(res) (expect does not panic); a timeout
\* can always be what it returns
ListenerNextReturns(w) ==
    /\ wkind[w] = "listener"
    /\ wpc[w] = "innext"
    /\ \E r \in NextResults :
         /\ r.some
         /\ (Reported(r.res) => Reports < MaxReports)
         /\ wres' = [wres EXCEPT ![w] = r.res]
    /\ wpc' = [wpc EXCEPT ![w] = "match"]
    /\ owed' = [owed EXCEPT ![w] = @ + 1]
    /\ UNCHANGED << wkind, ctlq, ctl_rx, statq, sent, since_stop >>
    /\ UNCHANGED << uiVars, codecVars, sendVars, recvVars, linkVars >>

\* a faulty match: an I/O error other than a timeout ends the worker with
\* Failure
ListenerMatch_AbortOnError(w) ==
    /\ wkind[w] = "listener"
    /\ wpc[w] = "match"
    /\ LET res == wres[w]
       IN  IF res.tag = "Ok"
           THEN StatusSend(w, GotRecord(Record(res.value.id, res.value.data)),
                           "poll")
           ELSE IF res.tag = "ParseError"
           THEN StatusSend(w, Warning("Got corrupted packet"), "poll")
           ELSE IF res.kind \notin TimeoutErrors
           THEN StatusSend(w, Failure("Error while reading from socket"),
                           "exiting")
           ELSE /\ wpc' = [wpc EXCEPT ![w] = "poll"]
                /\ UNCHANGED << statq, sent, ctl_rx >>
    /\ wres' = [wres EXCEPT ![w] = NoRes]
    /\ UNCHANGED << wkind, ctlq, owed, since_stop >>
    /\ UNCHANGED << uiVars, codecVars, sendVars, recvVars, linkVars >>

\* app.rs:215-236  match res: a record is reported with Info, a parse error
\* and an I/O error other than TimedOut and WouldBlock with Warning, a
\* timeout with nothing
ListenerMatch(w) ==
    /\ wkind[w] = "listener"
    /\ wpc[w] = "match"
    /\ LET res == wres[w]
       IN  IF res.tag = "Ok"
           THEN StatusSend(w, GotRecord(Record(res.value.id, res.value.data)),
                           "poll")
           ELSE IF res.tag = "ParseError"
           THEN StatusSend(w, Warning("Got corrupted packet"), "poll")
           ELSE IF res.kind \notin TimeoutErrors
           THEN StatusSend(w, Warning("Error while reading from socket"),
                           "poll")
           ELSE /\ wpc' = [wpc EXCEPT ![w] = "poll"]
                /\ UNCHANGED << statq, sent, ctl_rx >>
    /\ wres' = [wres EXCEPT ![w] = NoRes]
    /\ UNCHANGED << wkind, ctlq, owed, since_stop >>
    /\ UNCHANGED << uiVars, codecVars, sendVars, recvVars, linkVars >>

\* app.rs:237-242  control_receiver.try_recv(): on Ok(Stop) Info("Stopped")
\* is sent and the loop is left, on Err(Empty or Disconnected) it goes on
ListenerPoll(w) ==
    /\ wkind[w] = "listener"
    /\ wpc[w] = "poll"
    /\ owed' = [owed EXCEPT ![w] = @ - 1]
    /\ IF ctlq[w] > 0
       THEN /\ ctlq' = [ctlq EXCEPT ![w] = @ - 1]
            /\ StatusSend(w, Info("Stopped"), "stopped")
       ELSE /\ wpc' = [wpc EXCEPT ![w] = "loop"]
            /\ UNCHANGED << ctlq, ctl_rx, statq, sent >>
    /\ UNCHANGED << wkind, wres, since_stop >>
    /\ UNCHANGED << uiVars, codecVars, sendVars, recvVars, linkVars >>

\* app.rs:245  after the loop Success is sent
ListenerSuccess(w) ==
    /\ wkind[w] = "listener"
    /\ wpc[w] = "stopped"
    /\ StatusSend(w, Success, "exiting")
    /\ UNCHANGED << wkind, wres, ctlq, owed, since_stop >>
    /\ UNCHANGED << uiVars, codecVars, sendVars, recvVars, linkVars >>

\* app.rs:168, 247 and every ? and return Err: the closure returns, which
\* drops control_receiver, and with it the messages still in the channel,
\* and status_sender
WorkerExit(w) ==
    /\ wpc[w] = "exiting"
    /\ IF stat_rx[w]
       THEN /\ wpc' = [wpc EXCEPT ![w] = "done"]
            /\ UNCHANGED << wkind, sent, owed, since_stop, logmark >>
       ELSE Forget(w)
    /\ ctl_rx' = [ctl_rx EXCEPT ![w] = FALSE]
    /\ ctlq' = [ctlq EXCEPT ![w] = 0]
    /\ UNCHANGED << wres, statq >>
    /\ UNCHANGED << mode, task, status, applog, ui_pc, spawned, stat_rx >>
    /\ UNCHANGED << codecVars, sendVars, recvVars, linkVars >>

\* the fallible steps of the sender worker, in order (app.rs:123-162):
\* Sender::new, path.is_file, Connection::open, Record::load, Sender::send
SenderStages == << "bind", "file", "open", "load", "send" >>

\* the Failure each step reports (app.rs:126, 136, 145, 152, 160)
FailureText ==
    [bind |-> "Couldn't bind to buffer", file |-> "No such file",
     open |-> "Couldn't open file", load |-> "Couldn't load records from DB",
     send |-> "Error sending data"]

\* app.rs:114-121  the sender worker takes control_receiver and sends
\* Info("Sending data...")
SenderStart(w) ==
    /\ wkind[w] = "sender"
    /\ wpc[w] = "start"
    /\ StatusSend(w, Info("Sending data..."), "bind")
    /\ UNCHANGED << wkind, wres, ctlq, owed, since_stop >>
    /\ UNCHANGED << uiVars, codecVars, sendVars, recvVars, linkVars >>

\* app.rs:123-162  a step succeeds and the worker goes on to the next one
SenderStageOk(w) ==
    /\ wkind[w] = "sender"
    /\ \E i \in 1..Len(SenderStages) :
         /\ wpc[w] = SenderStages[i]
         /\ wpc' = [wpc EXCEPT ![w] = IF i < Len(SenderStages)
                                      THEN SenderStages[i + 1]
                                      ELSE "finish"]
    /\ UNCHANGED << wkind, wres, ctlq, ctl_rx, statq, sent, owed, since_stop >>
    /\ UNCHANGED << uiVars, codecVars, sendVars, recvVars, linkVars >>

\* a faulty step: after reporting Failure the worker goes on
SenderStageErr_GoesOn(w) ==
    /\ wkind[w] = "sender"
    /\ \E i \in 1..Len(SenderStages) :
         /\ wpc[w] = SenderStages[i]
         /\ StatusSend(w, Failure(FailureText[SenderStages[i]]), "finish")
    /\ UNCHANGED << wkind, wres, ctlq, owed, since_stop >>
    /\ UNCHANGED << uiVars, codecVars, sendVars, recvVars, linkVars >>

\* app.rs:123-162  a step fails: Failure is sent and the closure returns
\* Err(())
SenderStageErr(w) ==
    /\ wkind[w] = "sender"
    /\ \E i \in 1..Len(SenderStages) :
         /\ wpc[w] = SenderStages[i]
         /\ StatusSend(w, Failure(FailureText[SenderStages[i]]), "exiting")
    /\ UNCHANGED << wkind, wres, ctlq, owed, since_stop >>
    /\ UNCHANGED << uiVars, codecVars, sendVars, recvVars, linkVars >>

\* app.rs:164-166  Info("Done!") is sent
SenderDone(w) ==
    /\ wkind[w] = "sender"
    /\ wpc[w] = "finish"
    /\ StatusSend(w, Info("Done!"), "success")
    /\ UNCHANGED << wkind, wres, ctlq, owed, since_stop >>
    /\ UNCHANGED << uiVars, codecVars, sendVars, recvVars, linkVars >>

\* app.rs:167  Success is sent
SenderSuccess(w) ==
    /\ wkind[w] = "sender"
    /\ wpc[w] = "success"
    /\ StatusSend(w, Success, "exiting")
    /\ UNCHANGED << wkind, wres, ctlq, owed, since_stop >>
    /\ UNCHANGED << uiVars, codecVars, sendVars, recvVars, linkVars >>

\* app.rs:199-248  the steps of the listener worker thread w
ListenerStep(w) ==
    \/ ListenerBindErr(w)
    \/ ListenerBindOk(w)
    \/ ListenerCallNext(w)
    \/ ListenerNextReturns(w)
    \/ ListenerMatch(w)
    \/ ListenerPoll(w)
    \/ ListenerSuccess(w)
    \/ WorkerExit(w)

InitApp ==
    InitCodecVars /\ InitSendVars /\ InitRecvVars /\ InitAppVars /\ InitLinkVars

\* app.rs:259-337  the frames of update on the UI thread, interleaved with
\* the worker threads
NextApp ==
    \/ UiTop
    \/ UiPoll
    \/ UiNoClick
    \/ UiRun
    \/ UiListen
    \/ UiStop
    \/ \E w \in Workers : ListenerBindErr(w)
    \/ \E w \in Workers : ListenerBindOk(w)
    \/ \E w \in Workers : ListenerCallNext(w)
    \/ \E w \in Workers : ListenerNextReturns(w)
    \/ \E w \in Workers : ListenerMatch(w)
    \/ \E w \in Workers : ListenerPoll(w)
    \/ \E w \in Workers : ListenerSuccess(w)
    \/ \E w \in Workers : WorkerExit(w)
    \/ \E w \in Workers : SenderStart(w)
    \/ \E w \in Workers : SenderStageOk(w)
    \/ \E w \in Workers : SenderStageErr(w)
    \/ \E w \in Workers : SenderDone(w)
    \/ \E w \in Workers : SenderSuccess(w)

SpecApp == InitApp /\ [][NextApp]_vars

\* the same with every listener thread scheduled again and again, as long
\* as the process lives: a panic of the UI thread, which is the main thread,
\* ends the process
SpecAppFair ==
    /\ InitApp
    /\ [][NextApp]_vars
    /\ \A w \in Workers : WF_vars(ui_pc # "panicked" /\ ListenerStep(w))

-----------------------------------------------------------------------------
(* Properties of the application                                           *)

\* where a listener worker is while it is in the loop of app.rs:213-243
LoopPcs == { "loop", "innext", "match", "poll" }

\* what the match of app.rs:215-236 must send for res: nothing for a
\* timeout, a warning for a parse error and any other I/O error
ReportOf(res) ==
    IF res.tag = "Ok"
    THEN << GotRecord(Record(res.value.id, res.value.data)) >>
    ELSE IF res.tag = "ParseError"
    THEN << Warning("Got corrupted packet") >>
    ELSE IF res.kind \in TimeoutErrors
    THEN << >>
    ELSE << Warning("Error while reading from socket") >>

\* one step of listener worker w keeps it in the loop whatever next
\* returned, and takes it out of the loop only by reading a Stop
SurvivesStep(w) ==
    /\ wpc[w] = "match" /\ wpc'[w] # "match"
         => /\ wpc'[w] = "poll"
            /\ sent'[w] = sent[w] \o ReportOf(wres[w])
    /\ wpc[w] = "poll" /\ wpc'[w] # "poll" /\ ctlq[w] = 0
         => wpc'[w] = "loop"
    /\ wpc[w] \in LoopPcs /\ wpc'[w] \notin LoopPcs
         => /\ wpc[w] = "poll"
            /\ ctlq[w] > 0
            /\ ctlq'[w] = ctlq[w] - 1
            /\ wpc'[w] = "stopped"

\* C15: the listen loop survives every per-datagram failure: a parse error
\* (reported as the warning "Got corrupted packet"), a timeout or would-block
\* error (reported as nothing) and any other I/O error (reported as a
\* warning) each leave the worker running, with another call of next to
\* follow; the loop is left only after a Stop has been read
C15_LoopSurvives ==
    /\ [](\A w \in Workers : wpc[w] = "loop" => ENABLED ListenerCallNext(w))
    /\ [][\A w \in Workers : SurvivesStep(w)]_vars

\* a listener has reported a corrupted packet and a socket error and is in
\* next again
C15_Witness ==
    \E w \in Workers :
      /\ wkind[w] = "listener"
      /\ wpc[w] = "innext"
      /\ \E i, j \in 1..Len(sent[w]) :
           /\ sent[w][i] = Warning("Got corrupted packet")
           /\ sent[w][j] = Warning("Error while reading from socket")

\* a Stop waits in the control channel of a listener that is in its loop
StopPending(w) ==
    /\ wkind[w] = "listener"
    /\ wpc[w] \in LoopPcs
    /\ ctlq[w] > 0

\* the worker has sent Info("Stopped"), then Success, and is returning
StoppedAndReturning(w) ==
    /\ wpc[w] = "exiting"
    /\ Len(sent[w]) >= 2
    /\ sent[w][Len(sent[w]) - 1] = Info("Stopped")
    /\ sent[w][Len(sent[w])] = Success

\* C16: the worker polls the control channel exactly once after each result
\* of next; once a Stop has been placed on the control channel of a running
\* listener it starts at most one further call of next, then sends
\* Info("Stopped") and Success and terminates, and this eventually happens
\* even when no datagram ever arrives
C16_Cancellation ==
    /\ [](\A w \in Workers :
            /\ owed[w] = IF wpc[w] \in { "match", "poll" } THEN 1 ELSE 0
            /\ since_stop[w] <= 1
            /\ wpc[w] = "stopped" =>
                 sent[w][Len(sent[w])] = Info("Stopped"))
    /\ \A w \in Workers : StopPending(w) ~> StoppedAndReturning(w)

\* a listener that was never sent a datagram has been stopped; it started
\* one call of next after the Stop was placed
C16_Witness ==
    \E w \in Workers :
      /\ wpc[w] = "exiting"
      /\ since_stop[w] = 1
      /\ sent[w] = << Info("Listening on"), Info("Stopped"), Success >>

\* C17: in every reachable state where the UI holds a task and is in Listen
\* mode, so that the Stop button is offered, the worker's end of the control
\* channel is open, and the unwrap on control.send(Stop) does not panic
C17_StopNeverFails ==
    /\ ui_pc = "panel" /\ task # 0 /\ mode = "Listen" => ctl_rx[task]
    /\ ui_pc # "panicked"

\* whether a Success or Failure is among the messages q
HasTerminal(q) == \E i \in 1..Len(q) : q[i].level \in Terminal

\* the workers that exist and have not sent their terminal status
Unfinished == { w \in Workers : wkind[w] # "none" /\ ~HasTerminal(sent[w]) }

\* a step spawns a worker only while task is None, clears the task only by
\* consuming a Success or Failure, changes the mode only while task is None
OneWorkerStep ==
    /\ spawned' # spawned
         => task = 0 /\ spawned' = spawned + 1 /\ task' = spawned'
    /\ task # 0 /\ task' # task
         => /\ task' = 0
            /\ statq[task] # << >>
            /\ Head(statq[task]).level \in Terminal
            /\ statq'[task] = Tail(statq[task])
    /\ mode' # mode => task = 0

\* C18: a worker thread is spawned only when the task is absent and the task
\* is cleared only upon consuming a Success or Failure; at most one worker
\* that has not yet sent its terminal status exists, and the mode cannot be
\* changed while a task is present
C18_OneWorker ==
    /\ [](/\ Cardinality(Unfinished) <= 1
          /\ \A w \in Unfinished : task = w)
    /\ [][OneWorkerStep]_vars

\* a second worker runs while the thread of the first, which has sent its
\* terminal status, has not returned yet
C18_Witness ==
    \E v, w \in Workers :
      /\ v # w
      /\ wpc[v] = "exiting"
      /\ task = w
      /\ w \in Unfinished

NotSuccess(m) == m.level # "Success"

\* the lines update pushes to the log for the messages q
LogLines(q) ==
    LET l == SelectSeq(q, NotSuccess)
    IN  SubSeq([i \in 1..Len(l) |-> LogLine(l[i])], 1, Len(l))

\* when a step clears the task, the log ends with the lines of everything
\* the worker has sent
LoggedStep ==
    task # 0 /\ task' = 0
      => /\ Len(applog') = logmark[task] + Len(LogLines(sent[task]))
         /\ SubSeq(applog', logmark[task] + 1, Len(applog'))
              = LogLines(sent[task])

\* C19: every worker sends exactly one of Success and Failure, and nothing
\* after it; the UI releases the status channel only after consuming that
\* message, so every status send finds the channel open, and every Info and
\* Warning sent before it is in the log before the task is cleared
C19_TerminalLast ==
    /\ [](\A w \in Workers :
            /\ \A i \in 1..Len(sent[w]) :
                 sent[w][i].level \in Terminal => i = Len(sent[w])
            /\ wpc[w] \in { "exiting", "done" } <=> HasTerminal(sent[w])
            /\ wpc[w] # "panicked"
            /\ wkind[w] # "none" /\ ~stat_rx[w]
                 => HasTerminal(sent[w]) /\ statq[w] = << >>)
    /\ [][LoggedStep]_vars

\* the task of a stopped listener that reported a datagram has just been
\* cleared, all five of its messages consumed
C19_Witness ==
    /\ task = 0
    /\ \E w \in Workers :
         /\ wkind[w] = "listener"
         /\ ~stat_rx[w]
         /\ Len(sent[w]) = 5
         /\ Len(applog) >= 4

-----------------------------------------------------------------------------
(* A Sender's datagrams received by a Receiver                             *)

\* the records a worker loads and sends (app.rs:149-158): one with a short
\* text and those whose text ends in a two-byte character and fills the
\* payload capacity or exceeds it
LoadedRecords ==
    { it \in RecordItems :
        \/ Len(it.data) < MaxStrLen
        \/ Len(it.data) >= DataCap /\ it.data[Len(it.data)] >= 128 }

LoadedSeqs == UNION { [1..n -> LoadedRecords] : n \in 0..MaxItems }

\* app.rs:158  udp_sender.send(data.iter(), dest): send is called with the
\* records loaded
SendRecords ==
    /\ spc = "idle"
    /\ \E its \in LoadedSeqs : items' = its
    /\ spc' = "connect"
    /\ UNCHANGED << idx, serialized, connects, attempts, wire, log, sres >>
    /\ UNCHANGED << codecVars, recvVars, appVars, linkVars >>

\* the address the Sender's socket is bound to
SenderAddr == "127.0.0.1:8570"

\* the network delivers one of the datagrams the Sender's socket has
\* transmitted to the socket of a Receiver<Record>; datagrams may be lost,
\* repeated and reordered, they are never merged or altered
Deliver ==
    /\ rpc = "listening"
    /\ rtype = "Record"
    /\ arrived < MaxArrivals
    /\ \E k \in 1..Len(wire) :
         LET d == [bytes |-> wire[k], src |-> SenderAddr]
         IN  /\ rxq' = Append(rxq, d)
             /\ arrivals' = Append(arrivals, d)
             /\ delivered' = Append(delivered, k)
    /\ arrived' = arrived + 1
    /\ UNCHANGED << rpc, rtype, rtimeout, buf, results, recvs >>
    /\ UNCHANGED << codecVars, sendVars, appVars >>

InitLink ==
    InitCodecVars /\ InitSendVars /\ InitRecvVars /\ InitAppVars /\ InitLinkVars

\* a Sender sending records and a Receiver of the datagrams it transmits
NextLink ==
    \/ SenderNewOk
    \/ SendRecords
    \/ ConnectOk
    \/ SendItemOk
    \/ SendItemErr
    \/ SendReturn
    \/ ReceiverNewOk
    \/ Deliver
    \/ RecvDatagram

SpecLink == InitLink /\ [][NextLink]_vars

\* the record the datagram read by the i-th call of next was sent for: its
\* position in the sequence given to send
SentFor(i) == delivered[Cardinality(DatagramCalls(i))]

\* the cut after DataCap bytes of data falls inside a character: the byte
\* after the cut continues one
CutInsideChar(data) == Len(data) > DataCap /\ IsCont(data[DataCap + 1])

\* r is what the receiver must yield for the datagram of the oversized
\* record it
TruncatedResult(it, r) ==
    IF CutInsideChar(it.data)
    THEN r.tag = "ParseError" /\ r.err.tag = "Invalid"
    ELSE /\ r.tag = "Ok"
         /\ r.value = RecordItem(Record(it.id, SubSeq(it.data, 1, DataCap)))

\* C21: a record whose serialization exceeds 508 bytes, sent by send and its
\* datagram delivered to a Receiver<Record>, is yielded as Ok(record') with
\* the original id and the first 504 bytes of the original data, or, when
\* the cut at byte 508 falls inside a multi-byte character, as
\* Err(ParseError(Invalid)); never as Incomplete, with another id or with
\* data that is no prefix of the original; the record is one datagram, never
\* several
C21_EndToEnd ==
    /\ Len(wire) <= idx
    /\ \A k \in 1..Len(wire) : Len(wire[k]) <= UDP_MAX_PAYLOAD
    /\ \A i \in 1..Len(results) :
         recvs[i].cause = "datagram" =>
           /\ SentFor(i) <= Len(items)
           /\ LET it == items[SentFor(i)]
              IN  Len(ToUdp(it)) > UDP_MAX_PAYLOAD =>
                    TruncatedResult(it, results[i].res)

\* two oversized records have been sent, delivered and received: one was
\* yielded with its data cut to 504 bytes, the other as an invalid encoding
C21_Witness ==
    \E i, j \in 1..Len(results) :
      /\ recvs[i].cause = "datagram"
      /\ recvs[j].cause = "datagram"
      /\ Len(ToUdp(items[SentFor(i)])) > UDP_MAX_PAYLOAD
      /\ Len(ToUdp(items[SentFor(j)])) > UDP_MAX_PAYLOAD
      /\ results[i].res.tag = "Ok"
      /\ Len(results[i].res.value.data) = DataCap
      /\ results[j].res.tag = "ParseError"
      /\ results[j].res.err.tag = "Invalid"

=============================================================================
